---- MODULE Spec2Model ----
(***************************************************************************)
(* Model of the document-request pipeline of doc_summary_lib.py:           *)
(* sanitize_filename, apply_guardrails and the five orchestrators that     *)
(* read a PDF file object, assemble one Converse request, call the remote  *)
(* client and shape the result.                                            *)
(*                                                                         *)
(* A Python str is a sequence of one-character strings.  A literal prompt  *)
(* that no code inspects character by character is kept as one element.    *)
(***************************************************************************)
EXTENDS Integers, Sequences, FiniteSets, TLC

VARIABLES
    san_in,     \* argument of the last sanitize_filename call (SpecSan)
    san_out,    \* its return value, NotCalled before the call
    gr_in,      \* argument of the last apply_guardrails call (SpecGuard)
    gr_out,     \* its return value, NotCalledDict before the call
    pdf_file,   \* the caller's file object: name, content, read position
    call,       \* the last operation on pdf_file and its arguments
    pos0,       \* read position of pdf_file when that operation started
    sent,       \* requests it handed to bedrock_runtime.converse
    outcome,    \* what it returned or raised
    selected_model,  \* the model_id chosen in the sidebar of the app
    session_chat_history,  \* st.session_state.chat_history
    serialized,      \* whether concurrent callers hold a lock around a call
    threads          \* position and locals of each concurrent call (SpecConc)

vars == <<san_in, san_out, gr_in, gr_out, pdf_file, call, pos0, sent, outcome,
          selected_model, session_chat_history, serialized, threads>>

sanVars == <<san_in, san_out>>
grVars == <<gr_in, gr_out>>
orchVars == <<pdf_file, call, pos0, sent, outcome>>
appVars == <<selected_model, session_chat_history>>
concVars == <<serialized, threads>>

-----------------------------------------------------------------------------
(* Bounds of the model *)

MaxNameLen == 3
MaxPad == 1
MaxDocLen == 2

-----------------------------------------------------------------------------
(* Characters and character classes of the regular expressions *)

Digits == {"0", "1", "2", "3", "4", "5", "6", "7", "8", "9"}

Lower == {"a", "b", "c", "d", "e", "f", "g", "h", "i", "j", "k", "l", "m",
          "n", "o", "p", "q", "r", "s", "t", "u", "v", "w", "x", "y", "z"}

Upper == {"A", "B", "C", "D", "E", "F", "G", "H", "I", "J", "K", "L", "M",
          "N", "O", "P", "Q", "R", "S", "T", "U", "V", "W", "X", "Y", "Z"}

\* [a-zA-Z0-9 \-\(\)\[\]] : what the first re.sub of sanitize_filename keeps
AllowedNameChars == Lower \cup Upper \cup Digits \cup {" ", "-", "(", ")", "[", "]"}

\* what str.strip() removes
Whitespace == {" ", "\t", "\n", "\r"}

\* \w of the re module
WordChars == Lower \cup Upper \cup Digits \cup {"_"}

\* [A-Za-z0-9._%+-]
EmailLocalChars == Lower \cup Upper \cup Digits \cup {".", "_", "%", "+", "-"}

\* [A-Za-z0-9.-]
EmailDomainChars == Lower \cup Upper \cup Digits \cup {".", "-"}

\* [A-Z|a-z]
EmailTldChars == Lower \cup Upper \cup {"|"}

\* Python None, as a value comparable with every str
None == <<"<None>">>

Max(S) == CHOOSE x \in S : \A y \in S : y <= x

\* needle in haystack, for two str
Contains(haystack, needle) ==
    \E i \in 1..(Len(haystack) - Len(needle) + 1) :
        SubSeq(haystack, i, i + Len(needle) - 1) = needle

\* all str over alphabet of length at most n
RECURSIVE StrsUpTo(_, _)
StrsUpTo(alphabet, n) ==
    IF n = 0 THEN {<< >>}
    ELSE LET shorter == StrsUpTo(alphabet, n - 1)
         IN  shorter \cup {Append(s, c) : s \in shorter, c \in alphabet}

-----------------------------------------------------------------------------
(* sanitize_filename *)

DocumentPdf == <<"d", "o", "c", "u", "m", "e", "n", "t", ".", "p", "d", "f">>

\* re.sub(r'[^a-zA-Z0-9 \-\(\)\[\]]', '_', filename)
ReplaceInvalid(s) ==
    [i \in 1..Len(s) |-> IF s[i] \in AllowedNameChars THEN s[i] ELSE "_"]

\* re.sub(r' {2,}', ' ', s)
RECURSIVE CollapseSpaces(_)
CollapseSpaces(s) ==
    IF Len(s) < 2 THEN s
    ELSE IF s[1] = " " /\ s[2] = " " THEN CollapseSpaces(Tail(s))
    ELSE <<s[1]>> \o CollapseSpaces(Tail(s))

\* str.strip()
RECURSIVE Strip(_)
Strip(s) ==
    IF s = << >> THEN s
    ELSE IF s[1] \in Whitespace THEN Strip(Tail(s))
    ELSE IF s[Len(s)] \in Whitespace THEN Strip(SubSeq(s, 1, Len(s) - 1))
    ELSE s

\* sanitize_filename without the second fallback (lines 54-55 dropped)
sanitize_filename_NoFallback(filename) ==
    IF filename = None \/ filename = << >> THEN DocumentPdf
    ELSE Strip(CollapseSpaces(ReplaceInvalid(filename)))

sanitize_filename(filename) ==
    IF filename = None \/ filename = << >> THEN DocumentPdf
    ELSE LET sanitized == Strip(CollapseSpaces(ReplaceInvalid(filename)))
         IN  IF sanitized = << >> THEN DocumentPdf ELSE sanitized

-----------------------------------------------------------------------------
(* apply_guardrails: the three patterns, re.findall and re.sub *)

SsnToken == <<"[", "S", "S", "N", "_", "R", "E", "D", "A", "C", "T", "E", "D", "]">>
CardToken == <<"[", "C", "A", "R", "D", "_", "R", "E", "D", "A", "C", "T", "E", "D", "]">>
EmailToken == <<"[", "E", "M", "A", "I", "L", "_", "R", "E", "D", "A", "C", "T", "E", "D", "]">>

\* \b at the gap before t[i] (i = Len(t) + 1 is the end of the text)
WordBoundary(t, i) ==
    LET before == i > 1 /\ t[i - 1] \in WordChars
        after == i <= Len(t) /\ t[i] \in WordChars
    IN  before # after

AllIn(t, from, to, class) == \A j \in from..to : t[j] \in class

\* first index >= i whose character is outside class, Len(t) + 1 if none
RunEnd(t, i, class) ==
    IF \E j \in i..Len(t) : t[j] \notin class
    THEN CHOOSE j \in i..Len(t) : t[j] \notin class /\ AllIn(t, i, j - 1, class)
    ELSE Len(t) + 1

\* Each matcher gives the index just past the match that starts at i, 0 if the
\* pattern does not match at i.

\* \b\d{3}-\d{2}-\d{4}\b
SsnMatchEnd(t, i) ==
    IF /\ i + 10 <= Len(t)
       /\ WordBoundary(t, i)
       /\ AllIn(t, i, i + 2, Digits)
       /\ t[i + 3] = "-"
       /\ AllIn(t, i + 4, i + 5, Digits)
       /\ t[i + 6] = "-"
       /\ AllIn(t, i + 7, i + 10, Digits)
       /\ WordBoundary(t, i + 11)
    THEN i + 11 ELSE 0

\* \b\d{16}\b
CardMatchEnd(t, i) ==
    IF /\ i + 15 <= Len(t)
       /\ WordBoundary(t, i)
       /\ AllIn(t, i, i + 15, Digits)
       /\ WordBoundary(t, i + 16)
    THEN i + 16 ELSE 0

\* \b[A-Za-z0-9._%+-]+@[A-Za-z0-9.-]+\.[A-Z|a-z]{2,}\b
\* The local part runs to the first character outside its class, which must
\* be "@".  The domain and the top-level part are greedy and backtrack: the
\* match ends at the last "." of the domain run (dot) and the longest
\* top-level run after it (end) for which the closing \b holds.
EmailMatchEnd(t, i) ==
    LET at == RunEnd(t, i, EmailLocalChars)
        domEnd == RunEnd(t, at + 1, EmailDomainChars)
        Ends(dot) == {e \in (dot + 3)..RunEnd(t, dot + 1, EmailTldChars) :
                         WordBoundary(t, e)}
        Dots == {dot \in (at + 2)..(domEnd - 1) : t[dot] = "." /\ Ends(dot) # {}}
    IN  IF /\ i <= Len(t)
           /\ WordBoundary(t, i)
           /\ at > i
           /\ at <= Len(t)
           /\ t[at] = "@"
           /\ Dots # {}
        THEN Max(Ends(Max(Dots))) ELSE 0

MatchEnd(pattern, t, i) ==
    CASE pattern = "ssn" -> SsnMatchEnd(t, i)
      [] pattern = "card" -> CardMatchEnd(t, i)
      [] pattern = "email" -> EmailMatchEnd(t, i)

Matches(pattern, t) == \E i \in 1..Len(t) : MatchEnd(pattern, t, i) # 0

\* re.findall(pattern, t): the leftmost non-overlapping matches from index i on
RECURSIVE FindAll(_, _, _)
FindAll(pattern, t, i) ==
    IF i > Len(t) THEN << >>
    ELSE LET From(e) == IF e = 0 THEN FindAll(pattern, t, i + 1)
                        ELSE <<SubSeq(t, i, e - 1)>> \o FindAll(pattern, t, e)
         IN  From(MatchEnd(pattern, t, i))

\* re.sub(pattern, replacement, t), from index i on
RECURSIVE Sub(_, _, _, _)
Sub(pattern, replacement, t, i) ==
    IF i > Len(t) THEN << >>
    ELSE LET From(e) == IF e = 0 THEN <<t[i]>> \o Sub(pattern, replacement, t, i + 1)
                        ELSE replacement \o Sub(pattern, replacement, t, e)
         IN  From(MatchEnd(pattern, t, i))

sensitive_patterns ==
    << <<"ssn", SsnToken>>, <<"card", CardToken>>, <<"email", EmailToken>> >>

\* one turn of the loop over sensitive_patterns
GuardrailStep(acc, entry) ==
    LET Redact(matches) ==
            IF matches # << >>
            THEN [filtered_text |-> Sub(entry[1], entry[2], acc.filtered_text, 1),
                  redactions |-> acc.redactions \o matches]
            ELSE acc
    IN  Redact(FindAll(entry[1], acc.filtered_text, 1))

\* apply_guardrails with the action decided by "redactions is not None"
apply_guardrails_AlwaysFiltered(text) ==
    LET start == [filtered_text |-> text, redactions |-> << >>]
        done == GuardrailStep(GuardrailStep(GuardrailStep(start,
                    sensitive_patterns[1]), sensitive_patterns[2]), sensitive_patterns[3])
    IN  [filtered_text |-> done.filtered_text,
         redactions |-> done.redactions,
         action |-> "FILTERED"]

apply_guardrails(text) ==
    LET start == [filtered_text |-> text, redactions |-> << >>]
        Result(done) ==
            [filtered_text |-> done.filtered_text,
             redactions |-> done.redactions,
             action |-> IF done.redactions # << >> THEN "FILTERED" ELSE "ALLOWED"]
    IN  Result(GuardrailStep(GuardrailStep(GuardrailStep(start,
                sensitive_patterns[1]), sensitive_patterns[2]), sensitive_patterns[3]))

-----------------------------------------------------------------------------
(* Inputs of the two pure functions *)

NotCalled == <<"<not called>">>
NotCalledDict == [filtered_text |-> NotCalled, redactions |-> << >>, action |-> "NONE"]

NameAlphabet == {"a", "Z", "7", " ", "-", "(", "]", ".", "_", "/", "\t"}

ReportPdf == <<"m", "y", " ", " ", "r", "e", "p", "o", "r", "t", ".", "p", "d", "f">>

Filenames == StrsUpTo(NameAlphabet, MaxNameLen) \cup {None, DocumentPdf, ReportPdf}

Ssn == <<"1", "2", "3", "-", "4", "5", "-", "6", "7", "8", "9">>
CardNumber == <<"4", "1", "1", "1", "1", "1", "1", "1", "1", "1", "1", "1", "1", "1", "1", "1">>
Email == <<"a", "@", "b", ".", "c", "o">>
AtDomain == <<"@", "b", ".", "c", "o">>
MySsnIs == <<"M", "y", " ", "S", "S", "N", " ", "i", "s", " ">>

PadAlphabet == {"1", "a", "_", " ", "@", "."}
Pads == StrsUpTo(PadAlphabet, MaxPad)
Fragments == {<< >>, Ssn, CardNumber, Email, AtDomain, MySsnIs}

\* pad, fragment, fragment, pad
Texts == {a \o f \o g \o b : a \in Pads, f \in Fragments, g \in Fragments, b \in Pads}

-----------------------------------------------------------------------------
(* SpecSan: sanitize_filename applied to every filename of Filenames *)

OrchIdle ==
    /\ pdf_file = [name |-> None, content |-> << >>, pos |-> 0]
    /\ call = [op |-> "none"]
    /\ pos0 = 0
    /\ sent = << >>
    /\ outcome = [kind |-> "none"]

\* the app and the concurrent callers, when a specification leaves them out
AppIdle == selected_model = "" /\ session_chat_history = << >>
ConcIdle == serialized = TRUE /\ threads = << >>

InitSan ==
    /\ san_in \in Filenames
    /\ san_out = NotCalled
    /\ gr_in = << >>
    /\ gr_out = NotCalledDict
    /\ OrchIdle
    /\ AppIdle
    /\ ConcIdle

SanitizeCall ==
    /\ san_out = NotCalled
    /\ san_out' = sanitize_filename(san_in)
    /\ UNCHANGED <<san_in, grVars, orchVars, appVars, concVars>>

NextSan == SanitizeCall

SpecSan == InitSan /\ [][NextSan]_vars

-----------------------------------------------------------------------------
(* SpecGuard: apply_guardrails applied to every text of Texts *)

InitGuard ==
    /\ gr_in \in Texts
    /\ gr_out = NotCalledDict
    /\ san_in = << >>
    /\ san_out = NotCalled
    /\ OrchIdle
    /\ AppIdle
    /\ ConcIdle

GuardrailsCall ==
    /\ gr_out = NotCalledDict
    /\ gr_out' = apply_guardrails(gr_in)
    /\ UNCHANGED <<gr_in, sanVars, orchVars, appVars, concVars>>

NextGuard == GuardrailsCall

SpecGuard == InitGuard /\ [][NextGuard]_vars

-----------------------------------------------------------------------------
(* The file object, the Converse request and the remote client *)

DEFAULT_LLM_MODEL == "anthropic.claude-3-sonnet-20240229-v1:0"
HaikuModel == "anthropic.claude-3-haiku-20240307-v1:0"

\* pdf_file.seek(n)
\* a seek that leaves the read position where it was
Seek_Ignored(f, n) == f

\* pdf_file.seek(n)
Seek(f, n) == [f EXCEPT !.pos = n]

\* pdf_file.read(): the bytes from the read position to the end
ReadBytes(f) == SubSeq(f.content, f.pos + 1, Len(f.content))
AfterRead(f) == [f EXCEPT !.pos = Len(f.content)]

\* pdf_bytes = pdf_file.read() with the seek(0) before it left out
SeekThenRead_NoSeek(f) ==
    [bytes |-> ReadBytes(f), file |-> AfterRead(f)]

\* pdf_file.seek(0); pdf_bytes = pdf_file.read()
SeekThenRead(f) ==
    [bytes |-> ReadBytes(Seek(f, 0)), file |-> AfterRead(Seek(f, 0))]

\* doc_message of every orchestrator
DocMessage(f, pdf_bytes, text) ==
    [role |-> "user",
     content |-> << [document |-> [name |-> sanitize_filename(f.name),
                                   format |-> "pdf",
                                   source |-> [bytes |-> pdf_bytes]]],
                    [text |-> text] >>]

\* the keyword arguments of bedrock_runtime.converse
ConverseRequest(model_id, doc_message, max_tokens, temperature) ==
    [modelId |-> model_id,
     messages |-> <<doc_message>>,
     inferenceConfig |-> [maxTokens |-> max_tokens, temperature |-> temperature]]

\* What the remote client does with one request: it raises, or it returns a
\* response.  A response may lack its text block, its usage block or its
\* stop reason.
ClientError == [type |-> "ClientError", msg |-> "ThrottlingException"]
ConnectionError == [type |-> "EndpointConnectionError", msg |-> "Could not connect"]

Response(texts) ==
    [output |-> [message |-> [content |-> [i \in 1..Len(texts) |-> [text |-> texts[i]]]]],
     usage |-> [inputTokens |-> 10, outputTokens |-> 5],
     stopReason |-> "end_turn"]

NoUsage(r) == [output |-> r.output, stopReason |-> r.stopReason]
NoStopReason(r) == [output |-> r.output, usage |-> r.usage]

AnswerX == <<"X">>
AnswerWithEmail == <<"m", "a", "i", "l", " ">> \o Email

RemoteBehaviours ==
    << [raises |-> ClientError],
       [raises |-> ConnectionError],
       [returns |-> Response(<<AnswerX>>)],
       [returns |-> Response(<<AnswerWithEmail, AnswerX>>)],
       [returns |-> Response(<< >>)],
       [returns |-> NoUsage(Response(<<AnswerX>>))],
       [returns |-> NoStopReason(Response(<<AnswerX>>))] >>

Raises(remote) == "raises" \in DOMAIN remote

\* raise Exception(f"{prefix}{str(e)}") inside an except block: the new
\* exception carries the message and, as its context, the one being handled
Raise(prefix, e) ==
    [kind |-> "raise", type |-> "Exception", message |-> prefix \o e.msg, context |-> e]

Return(dict) == [kind |-> "return", value |-> dict]

\* response['output']['message']['content'][0]['text'] and the other
\* subscripts of a response: the exception a missing one raises
IndexErr == [type |-> "IndexError", msg |-> "list index out of range"]
KeyErr(key) == [type |-> "KeyError", msg |-> "'" \o key \o "'"]

HasText(r) == Len(r.output.message.content) >= 1
FirstText(r) == r.output.message.content[1].text

-----------------------------------------------------------------------------
(* The orchestrators.  Each gives the file object after the call, the      *)
(* requests it handed to the remote client and what it returned or raised. *)

style_prompts ==
    ("concise" :> <<"Provide a concise summary of this document in 2-3 paragraphs.">>)
    @@ ("detailed" :> <<"Provide a detailed and comprehensive summary of this document, covering all key points.">>)
    @@ ("bullet-points" :> <<"Summarize this document using clear bullet points, highlighting the main ideas.">>)
    @@ ("executive" :> <<"Provide an executive summary suitable for senior leadership, focusing on key insights and actionable items.">>)

\* a lookup without the default: an unknown style yields None
StylePrompt_NoDefault(summary_style) ==
    CASE summary_style = "concise" -> style_prompts["concise"]
      [] summary_style = "detailed" -> style_prompts["detailed"]
      [] summary_style = "bullet-points" -> style_prompts["bullet-points"]
      [] summary_style = "executive" -> style_prompts["executive"]
      [] OTHER -> None

\* style_prompts.get(summary_style, style_prompts["concise"])
StylePrompt(summary_style) ==
    CASE summary_style = "concise" -> style_prompts["concise"]
      [] summary_style = "detailed" -> style_prompts["detailed"]
      [] summary_style = "bullet-points" -> style_prompts["bullet-points"]
      [] summary_style = "executive" -> style_prompts["executive"]
      [] OTHER -> style_prompts["concise"]

\* the body shared by summarize_pdf_document and summarize_pdf_with_converse
SummarizeBody(f, prompt, model_id, remote, error_prefix) ==
    LET rd == SeekThenRead(f)
        request == ConverseRequest(model_id, DocMessage(f, rd.bytes, prompt), 4096, "0.5")
        r == remote.returns
        out == IF Raises(remote)
               THEN IF remote.raises.type = "ClientError"
                    THEN Raise("Bedrock API error: ", remote.raises)
                    ELSE Raise(error_prefix, remote.raises)
               ELSE IF ~HasText(r) THEN Raise(error_prefix, IndexErr)
               ELSE IF "usage" \notin DOMAIN r THEN Raise(error_prefix, KeyErr("usage"))
               ELSE IF "stopReason" \notin DOMAIN r THEN Raise(error_prefix, KeyErr("stopReason"))
               ELSE Return([summary |-> FirstText(r),
                            model |-> model_id,
                            input_tokens |-> r.usage.inputTokens,
                            output_tokens |-> r.usage.outputTokens,
                            stop_reason |-> r.stopReason])
    IN  [pdf_file |-> rd.file, sent |-> <<request>>, outcome |-> out]

summarize_pdf_document(f, summary_style, model_id, remote) ==
    SummarizeBody(f, StylePrompt(summary_style), model_id, remote,
                  "Error summarizing PDF document: ")

summarize_pdf_with_converse(f, prompt, model_id, remote) ==
    SummarizeBody(f, prompt, model_id, remote, "Error with custom PDF prompt: ")

SentimentPrompt ==
    <<"Analyze the sentiment and tone of this document. Provide:\n1. Overall sentiment (positive/negative/neutral)\n2. Key emotional tones\n3. Writing style">>

\* analyze_document_sentiment calling the remote client a second time when
\* the first call raises
analyze_document_sentiment_Retry(f, model_id, remote) ==
    LET rd == SeekThenRead(f)
        request == ConverseRequest(model_id, DocMessage(f, rd.bytes, SentimentPrompt),
                                   2048, "0.3")
        r == remote.returns
        prefix == "Error analyzing sentiment: "
        out == IF Raises(remote) THEN Raise(prefix, remote.raises)
               ELSE IF ~HasText(r) THEN Raise(prefix, IndexErr)
               ELSE Return([analysis |-> FirstText(r), model |-> model_id])
    IN  [pdf_file |-> rd.file,
         sent |-> IF Raises(remote) THEN <<request, request>> ELSE <<request>>,
         outcome |-> out]

analyze_document_sentiment(f, model_id, remote) ==
    LET rd == SeekThenRead(f)
        request == ConverseRequest(model_id, DocMessage(f, rd.bytes, SentimentPrompt),
                                   2048, "0.3")
        r == remote.returns
        prefix == "Error analyzing sentiment: "
        out == IF Raises(remote) THEN Raise(prefix, remote.raises)
               ELSE IF ~HasText(r) THEN Raise(prefix, IndexErr)
               ELSE Return([analysis |-> FirstText(r), model |-> model_id])
    IN  [pdf_file |-> rd.file, sent |-> <<request>>, outcome |-> out]

\* str(n) for an int
RECURSIVE NatToStr(_)
NatToStr(n) ==
    LET digit == <<"0", "1", "2", "3", "4", "5", "6", "7", "8", "9">>[(n % 10) + 1]
    IN  IF n < 10 THEN <<digit>> ELSE Append(NatToStr(n \div 10), digit)

IntToStr(n) == IF n < 0 THEN <<"-">> \o NatToStr(-n) ELSE NatToStr(n)

\* f"Extract the top {num_topics} key topics or themes from this document. ..."
TopicsPrompt(num_topics) ==
    <<"E", "x", "t", "r", "a", "c", "t", " ", "t", "h", "e", " ", "t", "o", "p", " ">>
    \o IntToStr(num_topics)
    \o <<" ", "k", "e", "y", " ", "t", "o", "p", "i", "c", "s",
         " or themes from this document. For each topic, provide a brief description.">>

extract_key_topics(f, num_topics, model_id, remote) ==
    LET rd == SeekThenRead(f)
        request == ConverseRequest(model_id,
                                   DocMessage(f, rd.bytes, TopicsPrompt(num_topics)),
                                   2048, "0.3")
        r == remote.returns
        prefix == "Error extracting topics: "
        out == IF Raises(remote) THEN Raise(prefix, remote.raises)
               ELSE IF ~HasText(r) THEN Raise(prefix, IndexErr)
               ELSE Return([topics |-> FirstText(r), model |-> model_id])
    IN  [pdf_file |-> rd.file, sent |-> <<request>>, outcome |-> out]

\* "Based on this document, answer: "
QaPrefix ==
    <<"B", "a", "s", "e", "d", " ", "o", "n", " ", "t", "h", "i", "s", " ",
      "d", "o", "c", "u", "m", "e", "n", "t", ",", " ",
      "a", "n", "s", "w", "e", "r", ":", " ">>

\* the first guardrail block with its result never assigned to question
GuardedQuestion_Unfiltered(question, use_guardrails) == question

\* the question after the first guardrail block (lines 338-341)
GuardedQuestion(question, use_guardrails) ==
    IF use_guardrails /\ apply_guardrails(question).redactions # << >>
    THEN apply_guardrails(question).filtered_text
    ELSE question

\* the answer after the second guardrail block (lines 370-372)
GuardedAnswer(answer, use_guardrails) ==
    IF use_guardrails THEN apply_guardrails(answer).filtered_text ELSE answer

\* messages that thread the earlier turns of chat_history before the document
QaMessages_Threaded(f, pdf_bytes, question, chat_history) ==
    [i \in 1..Len(chat_history) |->
        [role |-> "user", content |-> <<[text |-> chat_history[i].question]>>]]
    \o <<DocMessage(f, pdf_bytes, QaPrefix \o question)>>

\* the messages handed to converse by answer_questions_about_document;
\* chat_history is a parameter the body never reads
QaMessages(f, pdf_bytes, question, chat_history) ==
    <<DocMessage(f, pdf_bytes, QaPrefix \o question)>>

answer_questions_about_document(f, question, chat_history, model_id, use_guardrails, remote) ==
    LET q == GuardedQuestion(question, use_guardrails)
        rd == SeekThenRead(f)
        request == [modelId |-> model_id,
                    messages |-> QaMessages(f, rd.bytes, q, chat_history),
                    inferenceConfig |-> [maxTokens |-> 2048, temperature |-> "0.2"]]
        r == remote.returns
        prefix == "Error answering question: "
        out == IF Raises(remote) THEN Raise(prefix, remote.raises)
               ELSE IF ~HasText(r) THEN Raise(prefix, IndexErr)
               ELSE IF "usage" \notin DOMAIN r THEN Raise(prefix, KeyErr("usage"))
               ELSE Return([answer |-> GuardedAnswer(FirstText(r), use_guardrails),
                            question |-> q,
                            model |-> model_id,
                            input_tokens |-> r.usage.inputTokens,
                            output_tokens |-> r.usage.outputTokens])
    IN  [pdf_file |-> rd.file, sent |-> <<request>>, outcome |-> out]

-----------------------------------------------------------------------------
(* Spec: any sequence of orchestrator calls on one file object, with the   *)
(* caller free to move the read position between calls                     *)

PdfBytes == <<37, 80, 68, 70, 45, 49, 46, 52>>
Document == [i \in 1..MaxDocLen |-> PdfBytes[((i - 1) % Len(PdfBytes)) + 1]]

UploadName == <<"a", " ", " ", "b", ".", "p", "d", "f">>
DocNames == {UploadName}

Models == {DEFAULT_LLM_MODEL, HaikuModel}
Styles == {"concise", "detailed", "bullet-points", "executive", "poetic"}
CustomPrompts == {<<"List the risks named in this document.">>}
NumTopics == {5, 11, -1}

Who == <<"W", "h", "o", "?">>
Questions == {MySsnIs \o Ssn, Who}
\* chat_history=None, and a history of one earlier turn
NoChatHistory == << >>
ChatHistoryArgs == <<NoChatHistory, <<[question |-> Who, answer |-> AnswerX]>> >>

Init ==
    /\ san_in = << >>
    /\ san_out = NotCalled
    /\ gr_in = << >>
    /\ gr_out = NotCalledDict
    /\ \E n \in DocNames : pdf_file = [name |-> n, content |-> Document, pos |-> 0]
    /\ call = [op |-> "none"]
    /\ pos0 = 0
    /\ sent = << >>
    /\ outcome = [kind |-> "none"]
    /\ AppIdle
    /\ ConcIdle

\* the call has run to its return or its raise
Finish(args, done) ==
    /\ call' = args
    /\ pos0' = pdf_file.pos
    /\ \E d \in {done} :
          /\ pdf_file' = d.pdf_file
          /\ sent' = d.sent
          /\ outcome' = d.outcome
    /\ UNCHANGED <<sanVars, grVars, appVars, concVars>>

\* between two orchestrator calls the caller, or the framework that owns the
\* upload, moves the read position of the file object
CallerSeek ==
    \E n \in 0..Len(pdf_file.content) :
        /\ n # pdf_file.pos
        /\ call' = [op |-> "seek", offset |-> n]
        /\ pos0' = pdf_file.pos
        /\ pdf_file' = Seek(pdf_file, n)
        /\ sent' = << >>
        /\ outcome' = [kind |-> "none"]
        /\ UNCHANGED <<sanVars, grVars, appVars, concVars>>

SummarizePdfDocument ==
    \E style \in Styles, m \in Models, b \in DOMAIN RemoteBehaviours :
        Finish([op |-> "summarize_pdf_document", model_id |-> m,
                remote |-> RemoteBehaviours[b], summary_style |-> style],
               summarize_pdf_document(pdf_file, style, m, RemoteBehaviours[b]))

SummarizePdfWithConverse ==
    \E prompt \in CustomPrompts, m \in Models, b \in DOMAIN RemoteBehaviours :
        Finish([op |-> "summarize_pdf_with_converse", model_id |-> m,
                remote |-> RemoteBehaviours[b], prompt |-> prompt],
               summarize_pdf_with_converse(pdf_file, prompt, m, RemoteBehaviours[b]))

AnalyzeDocumentSentiment ==
    \E m \in Models, b \in DOMAIN RemoteBehaviours :
        Finish([op |-> "analyze_document_sentiment",
                model_id |-> m, remote |-> RemoteBehaviours[b]],
               analyze_document_sentiment(pdf_file, m, RemoteBehaviours[b]))

ExtractKeyTopics ==
    \E n \in NumTopics, m \in Models, b \in DOMAIN RemoteBehaviours :
        Finish([op |-> "extract_key_topics", model_id |-> m,
                remote |-> RemoteBehaviours[b], num_topics |-> n],
               extract_key_topics(pdf_file, n, m, RemoteBehaviours[b]))

AnswerQuestionsAboutDocument ==
    \E q \in Questions, h \in DOMAIN ChatHistoryArgs, m \in Models,
       g \in BOOLEAN, b \in DOMAIN RemoteBehaviours :
        Finish([op |-> "answer_questions_about_document", model_id |-> m,
                remote |-> RemoteBehaviours[b], question |-> q,
                use_guardrails |-> g, chat_history |-> ChatHistoryArgs[h]],
               answer_questions_about_document(pdf_file, q, ChatHistoryArgs[h], m, g,
                                               RemoteBehaviours[b]))

Next ==
    \/ CallerSeek
    \/ SummarizePdfDocument
    \/ SummarizePdfWithConverse
    \/ AnalyzeDocumentSentiment
    \/ ExtractKeyTopics
    \/ AnswerQuestionsAboutDocument

Spec == Init /\ [][Next]_vars

-----------------------------------------------------------------------------
(* SpecText: the test script, which hands the library a plain str where    *)
(* the orchestrators take a file object                                    *)

MaxTextLen == 2

TextAlphabet == {"a", " ", "."}
SampleTexts == StrsUpTo(TextAlphabet, MaxTextLen)

\* a Python str passed where pdf_file is expected
TextDocument(t) == [str |-> t]

\* a file object has seek and read, a str has neither
HasSeek(f) == "pos" \in DOMAIN f

\* the names doc_summary_lib defines
LibraryNames ==
    {"sanitize_filename", "apply_guardrails", "summarize_pdf_document",
     "summarize_pdf_with_converse", "analyze_document_sentiment",
     "extract_key_topics", "answer_questions_about_document"}

\* lib.<name> for a name the module does not define
NoAttribute(name) ==
    [kind |-> "raise", type |-> "AttributeError",
     message |-> "module 'doc_summary_lib' has no attribute '" \o name \o "'"]

\* pdf_file.seek(0) on a str, raised inside the orchestrator's try block
StrHasNoSeek == [type |-> "AttributeError", msg |-> "'str' object has no attribute 'seek'"]

\* an orchestrator called on f: with a str, seek raises before anything is
\* sent and the except block wraps the error
OnDocument(f, error_prefix, done) ==
    IF HasSeek(f) THEN done
    ELSE [pdf_file |-> f, sent |-> << >>, outcome |-> Raise(error_prefix, StrHasNoSeek)]

\* the remote client of the test run answers
SuccessfulRemotes ==
    << [returns |-> Response(<<AnswerX>>)],
       [returns |-> Response(<<AnswerWithEmail, AnswerX>>)] >>

InitText ==
    /\ san_in = << >>
    /\ san_out = NotCalled
    /\ gr_in = << >>
    /\ gr_out = NotCalledDict
    /\ OrchIdle
    /\ AppIdle
    /\ ConcIdle

TestFinish(args, done) ==
    /\ call' = args
    /\ pos0' = 0
    /\ \E d \in {done} :
          /\ pdf_file' = d.pdf_file
          /\ sent' = d.sent
          /\ outcome' = d.outcome
    /\ UNCHANGED <<sanVars, grVars, appVars, concVars>>

TestTextSummarization ==
    \E t \in SampleTexts, b \in DOMAIN SuccessfulRemotes :
        /\ "summarize_document_with_text" \notin LibraryNames
        /\ TestFinish([op |-> "summarize_document_with_text", model_id |-> HaikuModel,
                       remote |-> SuccessfulRemotes[b], summary_style |-> "concise"],
                      [pdf_file |-> TextDocument(t), sent |-> << >>,
                       outcome |-> NoAttribute("summarize_document_with_text")])

TestSentimentAnalysis ==
    \E t \in SampleTexts, b \in DOMAIN SuccessfulRemotes :
        TestFinish([op |-> "analyze_document_sentiment",
                    model_id |-> HaikuModel, remote |-> SuccessfulRemotes[b]],
                   OnDocument(TextDocument(t), "Error analyzing sentiment: ",
                       analyze_document_sentiment(TextDocument(t), HaikuModel,
                                                  SuccessfulRemotes[b])))

TestTopicExtraction ==
    \E t \in SampleTexts, b \in DOMAIN SuccessfulRemotes :
        TestFinish([op |-> "extract_key_topics", model_id |-> HaikuModel,
                    remote |-> SuccessfulRemotes[b], num_topics |-> 3],
                   OnDocument(TextDocument(t), "Error extracting topics: ",
                       extract_key_topics(TextDocument(t), 3, HaikuModel,
                                          SuccessfulRemotes[b])))

TestQa ==
    \E t \in SampleTexts, q \in Questions, b \in DOMAIN SuccessfulRemotes :
        TestFinish([op |-> "answer_questions_about_document", model_id |-> HaikuModel,
                    remote |-> SuccessfulRemotes[b], question |-> q,
                    use_guardrails |-> FALSE, chat_history |-> NoChatHistory],
                   OnDocument(TextDocument(t), "Error answering question: ",
                       answer_questions_about_document(TextDocument(t), q, NoChatHistory,
                           HaikuModel, FALSE, SuccessfulRemotes[b])))

NextText ==
    \/ TestTextSummarization
    \/ TestSentimentAnalysis
    \/ TestTopicExtraction
    \/ TestQa

SpecText == InitText /\ [][NextText]_vars

-----------------------------------------------------------------------------
(* SpecApp: the Streamlit app.  Each action is one run of the script with  *)
(* one widget event: the sidebar selection, the upload, a button or the    *)
(* chat input.                                                             *)

MaxHistory == 2

Sonnet35Model == "anthropic.claude-3-5-sonnet-20240620-v1:0"

\* the values of model_options
ModelOptions == {DEFAULT_LLM_MODEL, HaikuModel, Sonnet35Model}

\* the values of the summary style radio
StyleOptions == {"concise", "detailed", "bullet-points", "executive"}

\* values of the num_topics slider
SliderValues == {3, 5, 10}

AppRemotes ==
    << [raises |-> ClientError],
       [returns |-> Response(<<AnswerX>>)],
       [returns |-> Response(<<AnswerWithEmail, AnswerX>>)] >>

Uploaded == pdf_file.name # None

InitApp ==
    /\ san_in = << >>
    /\ san_out = NotCalled
    /\ gr_in = << >>
    /\ gr_out = NotCalledDict
    /\ OrchIdle
    /\ selected_model = DEFAULT_LLM_MODEL
    /\ session_chat_history = << >>
    /\ ConcIdle

\* st.session_state.pdf_file = uploaded_file
Upload ==
    /\ ~Uploaded
    /\ call' = [op |-> "upload"]
    /\ pos0' = 0
    /\ pdf_file' = [name |-> UploadName, content |-> Document, pos |-> 0]
    /\ sent' = << >>
    /\ outcome' = [kind |-> "none"]
    /\ UNCHANGED <<sanVars, grVars, appVars, concVars>>

\* model_id = model_options[selected_model_name]
SelectModel ==
    \E m \in ModelOptions \ {selected_model} :
        /\ call' = [op |-> "select_model", model_id |-> m]
        /\ selected_model' = m
        /\ sent' = << >>
        /\ outcome' = [kind |-> "none"]
        /\ UNCHANGED <<sanVars, grVars, concVars, pdf_file, pos0, session_chat_history>>

\* a button handler that calls the library and shows the result or the error
AppFinish(args, done) ==
    /\ Uploaded
    /\ call' = args
    /\ pos0' = pdf_file.pos
    /\ \E d \in {done} :
          /\ pdf_file' = d.pdf_file
          /\ sent' = d.sent
          /\ outcome' = d.outcome
    /\ UNCHANGED <<sanVars, grVars, appVars, concVars>>

Summarize ==
    \E style \in StyleOptions, b \in DOMAIN AppRemotes :
        AppFinish([op |-> "summarize", model_id |-> selected_model,
                   remote |-> AppRemotes[b], summary_style |-> style],
                  summarize_pdf_document(pdf_file, style, selected_model, AppRemotes[b]))

AnalyzeSentiment ==
    \E b \in DOMAIN AppRemotes :
        AppFinish([op |-> "analyze_sentiment", model_id |-> selected_model,
                   remote |-> AppRemotes[b]],
                  analyze_document_sentiment(pdf_file, selected_model, AppRemotes[b]))

ExtractTopics ==
    \E n \in SliderValues, b \in DOMAIN AppRemotes :
        AppFinish([op |-> "extract_topics", model_id |-> selected_model,
                   remote |-> AppRemotes[b], num_topics |-> n],
                  extract_key_topics(pdf_file, n, selected_model, AppRemotes[b]))

\* the entry put first instead of last
AppendHistory_Front(history, question, result) ==
    <<[question |-> question, answer |-> result.answer]>> \o history

\* st.session_state.chat_history.append({...})
AppendHistory(history, question, result) ==
    Append(history, [question |-> question, answer |-> result.answer])

\* lib.answer_questions_about_document(st.session_state.pdf_file, question,
\* model_id): the third positional parameter of the library function is
\* chat_history, so model_id and use_guardrails take their defaults
AskQuestionCall(question, model_id, remote) ==
    answer_questions_about_document(pdf_file, question, model_id,
                                    DEFAULT_LLM_MODEL, FALSE, remote)

\* the chat input: on success the pair is appended, on an exception the
\* error is shown and the history is left alone
AskQuestion ==
    \E q \in Questions, b \in DOMAIN AppRemotes :
        /\ Uploaded
        /\ Len(session_chat_history) < MaxHistory
        /\ call' = [op |-> "ask_question", model_id |-> selected_model,
                    remote |-> AppRemotes[b], question |-> q]
        /\ pos0' = pdf_file.pos
        /\ \E d \in {AskQuestionCall(q, selected_model, AppRemotes[b])} :
              /\ pdf_file' = d.pdf_file
              /\ sent' = d.sent
              /\ outcome' = d.outcome
              /\ session_chat_history' =
                    IF d.outcome.kind = "return"
                    THEN AppendHistory(session_chat_history, q, d.outcome.value)
                    ELSE session_chat_history
        /\ UNCHANGED <<sanVars, grVars, concVars, selected_model>>

\* the Clear History button, shown while the history is not empty
ClearHistory ==
    /\ Uploaded
    /\ session_chat_history # << >>
    /\ call' = [op |-> "clear_history"]
    /\ session_chat_history' = << >>
    /\ sent' = << >>
    /\ outcome' = [kind |-> "none"]
    /\ UNCHANGED <<sanVars, grVars, concVars, pdf_file, pos0, selected_model>>

NextApp ==
    \/ Upload
    \/ SelectModel
    \/ Summarize
    \/ AnalyzeSentiment
    \/ ExtractTopics
    \/ AskQuestion
    \/ ClearHistory

SpecApp == InitApp /\ [][NextApp]_vars

-----------------------------------------------------------------------------
(* SpecConc: two calls of orchestrators on one file object, running in     *)
(* two threads.  seek, read and converse are separate steps of a call, so  *)
(* the steps of the two calls interleave unless the callers serialize      *)
(* them with a lock held for the whole call.                               *)

Threads == {1, 2}

ConcOps == {"summarize_pdf_document", "extract_key_topics", "answer_questions_about_document"}

ThreadIdle == [op |-> "none", pdf_bytes |-> << >>, pc |-> "idle", requests |-> << >>]

\* a call is between its seek and its converse
InCall(t) == threads[t].pc \in {"seeked", "read"}

\* the request a call builds from the bytes it has read
ThreadRequest(op, f, pdf_bytes) ==
    CASE op = "summarize_pdf_document" ->
            ConverseRequest(DEFAULT_LLM_MODEL,
                            DocMessage(f, pdf_bytes, StylePrompt("concise")), 4096, "0.5")
      [] op = "extract_key_topics" ->
            ConverseRequest(DEFAULT_LLM_MODEL,
                            DocMessage(f, pdf_bytes, TopicsPrompt(5)), 2048, "0.3")
      [] op = "answer_questions_about_document" ->
            [modelId |-> DEFAULT_LLM_MODEL,
             messages |-> QaMessages(f, pdf_bytes, Who, NoChatHistory),
             inferenceConfig |-> [maxTokens |-> 2048, temperature |-> "0.2"]]

InitConc ==
    /\ san_in = << >>
    /\ san_out = NotCalled
    /\ gr_in = << >>
    /\ gr_out = NotCalledDict
    /\ \E n \in 0..Len(Document) :
          pdf_file = [name |-> UploadName, content |-> Document, pos |-> n]
    /\ call = [op |-> "none"]
    /\ pos0 = 0
    /\ sent = << >>
    /\ outcome = [kind |-> "none"]
    /\ AppIdle
    /\ serialized \in BOOLEAN
    /\ threads = [t \in Threads |-> ThreadIdle]

\* pdf_file.seek(0), the first step of a call; with serialized callers it
\* waits until no other call is under way
ThreadSeek(t) ==
    \E op \in ConcOps :
        /\ threads[t].pc \in {"idle", "done"}
        /\ serialized => \A u \in Threads \ {t} : ~InCall(u)
        /\ pdf_file' = Seek(pdf_file, 0)
        /\ threads' = [threads EXCEPT ![t] =
                           [op |-> op, pdf_bytes |-> << >>, pc |-> "seeked",
                            requests |-> << >>]]
        /\ UNCHANGED <<sanVars, grVars, appVars, call, pos0, sent, outcome, serialized>>

\* pdf_bytes = pdf_file.read()
ThreadRead(t) ==
    /\ threads[t].pc = "seeked"
    /\ pdf_file' = AfterRead(pdf_file)
    /\ threads' = [threads EXCEPT ![t].pc = "read", ![t].pdf_bytes = ReadBytes(pdf_file)]
    /\ UNCHANGED <<sanVars, grVars, appVars, call, pos0, sent, outcome, serialized>>

\* bedrock_runtime.converse(...) with the bytes read; the rest of the call
\* does not touch the file object
ThreadConverse(t) ==
    /\ threads[t].pc = "read"
    /\ threads' = [threads EXCEPT
                       ![t].pc = "done",
                       ![t].requests = <<ThreadRequest(threads[t].op, pdf_file,
                                                       threads[t].pdf_bytes)>>]
    /\ UNCHANGED <<sanVars, grVars, appVars, orchVars, serialized>>

NextConc ==
    \/ \E t \in Threads : ThreadSeek(t)
    \/ \E t \in Threads : ThreadRead(t)
    \/ \E t \in Threads : ThreadConverse(t)

SpecConc == InitConc /\ [][NextConc]_vars

-----------------------------------------------------------------------------
(* Claims about sanitize_filename, under SpecSan *)

\* C4: every character of sanitize_filename(f) is one of A-Z, a-z, 0-9,
\* space, "-", "(", ")", "[", "]", for the replaced characters and for the
\* fallback name too.  The code replaces with "_" and falls back to
\* "document.pdf", so this fails.
C4_OnlyAllowedChars ==
    san_out # NotCalled => \A i \in 1..Len(san_out) : san_out[i] \in AllowedNameChars

OnlySpaces(s) == \A i \in 1..Len(s) : s[i] = " "

\* C5: sanitize_filename returns for every str and for None; the result is
\* not empty, has no two consecutive spaces and no leading or trailing
\* space, and is "document.pdf" exactly when the input is None, empty or
\* made of spaces only.
C5_SanitizeTotal ==
    san_out # NotCalled =>
        /\ Len(san_out) > 0
        /\ \A i \in 1..(Len(san_out) - 1) : ~(san_out[i] = " " /\ san_out[i + 1] = " ")
        /\ san_out[1] # " "
        /\ san_out[Len(san_out)] # " "
        /\ (san_out = DocumentPdf) <=> (san_in = None \/ OnlySpaces(san_in))

\* a name of two or more spaces has been collapsed, trimmed and replaced
C5_Witness ==
    /\ san_in # None
    /\ Len(san_in) >= 2
    /\ OnlySpaces(san_in)
    /\ san_out = DocumentPdf

-----------------------------------------------------------------------------
(* Claims about apply_guardrails, under SpecGuard *)

GuardrailsCalled == gr_out # NotCalledDict

\* C3: every text that contains "123-45-6789", whatever surrounds it, comes
\* back FILTERED, with "[SSN_REDACTED]" in it and without "123-45-6789".
\* The pattern is anchored by \b on both sides, so this fails when a word
\* character is adjacent.
C3_SsnAlwaysRedacted ==
    (GuardrailsCalled /\ Contains(gr_in, Ssn)) =>
        /\ gr_out.action = "FILTERED"
        /\ Contains(gr_out.filtered_text, SsnToken)
        /\ ~Contains(gr_out.filtered_text, Ssn)

NoPatternMatches(t) ==
    ~Matches("ssn", t) /\ ~Matches("card", t) /\ ~Matches("email", t)

\* C6: when none of the three patterns matches the text, the result is
\* ALLOWED with no redactions and the text unchanged; and for every text the
\* action is FILTERED exactly when redactions is not empty.
C6_NoPatternNoOp ==
    GuardrailsCalled =>
        /\ NoPatternMatches(gr_in) =>
              gr_out = [filtered_text |-> gr_in, redactions |-> << >>, action |-> "ALLOWED"]
        /\ (gr_out.action = "FILTERED") <=> (gr_out.redactions # << >>)
        /\ gr_out.action \in {"FILTERED", "ALLOWED"}

\* a text with the digits of an SSN that no pattern matches has passed through
C6_Witness ==
    /\ GuardrailsCalled
    /\ Contains(gr_in, Ssn)
    /\ NoPatternMatches(gr_in)
    /\ gr_out.filtered_text = gr_in

ValidEmails == {Email, Ssn \o AtDomain, CardNumber \o AtDomain}
Margins == {<< >>, <<" ">>}

InRedactions(x, r) == \E i \in 1..Len(r.redactions) : r.redactions[i] = x

\* C7: a valid email address in the text is replaced, whole and alone, by
\* "[EMAIL_REDACTED]" and recorded in redactions, also when its local part
\* has the shape of an SSN or is 16 digits.  The SSN and card passes run
\* first and rewrite the local part, after which the email pattern no
\* longer matches, so this fails.
C7_EmailMaskedExactly ==
    GuardrailsCalled =>
        \A pre \in Margins, post \in Margins, addr \in ValidEmails :
            gr_in = pre \o addr \o post =>
                /\ gr_out.filtered_text = pre \o EmailToken \o post
                /\ InRedactions(addr, gr_out)

-----------------------------------------------------------------------------
(* Claims about the orchestrators, under Spec *)

Orchestrators ==
    {"summarize_pdf_document", "summarize_pdf_with_converse",
     "analyze_document_sentiment", "extract_key_topics",
     "answer_questions_about_document"}

OrchestratorCalled == call.op \in Orchestrators
QaCalled == call.op = "answer_questions_about_document"

\* the parts of the one message of a request
DocumentPart(request) == request.messages[1].content[1]
TextPart(request) == request.messages[1].content[2]

\* C1: whatever the read position was when the call started, every
\* orchestrator puts the whole content of the document, from its first byte,
\* in the request.
C1_FullDocumentSent ==
    OrchestratorCalled =>
        /\ Len(sent) = 1
        /\ DocumentPart(sent[1]).document.source.bytes = pdf_file.content
        /\ pdf_file.content = Document

\* a Q&A call that started with the read position in the middle of the file
C1_Witness ==
    /\ QaCalled
    /\ pos0 > 0
    /\ pos0 < Len(pdf_file.content)
    /\ DocumentPart(sent[1]).document.source.bytes = Document

SsnQuestion == MySsnIs \o Ssn

\* C2: with use_guardrails the text part of the Q&A request is "Based on this
\* document, answer: " followed by apply_guardrails(question).filtered_text,
\* so "My SSN is 123-45-6789" reaches the request with "[SSN_REDACTED]" and
\* without the number; without use_guardrails the question goes in verbatim
\* and neither the question nor the answer is filtered.
C2_GuardedQuestionText ==
    QaCalled =>
        LET text == TextPart(sent[1]).text
        IN  /\ call.use_guardrails =>
                  text = QaPrefix \o apply_guardrails(call.question).filtered_text
            /\ (call.use_guardrails /\ call.question = SsnQuestion) =>
                  Contains(text, SsnToken) /\ ~Contains(text, Ssn)
            /\ ~call.use_guardrails =>
                  /\ text = QaPrefix \o call.question
                  /\ outcome.kind = "return" =>
                        /\ outcome.value.question = call.question
                        /\ outcome.value.answer = FirstText(call.remote.returns)

\* the SSN question has been asked with use_guardrails and sent redacted
C2_Witness ==
    /\ QaCalled
    /\ call.use_guardrails
    /\ call.question = SsnQuestion
    /\ Contains(TextPart(sent[1]).text, SsnToken)

TaskOrchestrators ==
    {"summarize_pdf_document", "analyze_document_sentiment", "extract_key_topics",
     "answer_questions_about_document"}

PrimaryField(op) ==
    CASE op = "summarize_pdf_document" -> "summary"
      [] op = "analyze_document_sentiment" -> "analysis"
      [] op = "extract_key_topics" -> "topics"
      [] op = "answer_questions_about_document" -> "answer"

WellFormed(r) == HasText(r) /\ "usage" \in DOMAIN r /\ "stopReason" \in DOMAIN r

\* C9: on a well-formed response every task orchestrator returns its primary
\* text field equal to the first text block, the model id, the input and
\* output token counts of the usage block and the stop reason.  Sentiment
\* and topics return only the text and the model, so this fails.
C9_UniformResult ==
    (call.op \in TaskOrchestrators /\ ~Raises(call.remote) /\ WellFormed(call.remote.returns)) =>
        /\ outcome.kind = "return"
        /\ outcome.value[PrimaryField(call.op)] = FirstText(call.remote.returns)
        /\ outcome.value.model = call.model_id
        /\ "input_tokens" \in DOMAIN outcome.value
        /\ outcome.value.input_tokens = call.remote.returns.usage.inputTokens
        /\ "output_tokens" \in DOMAIN outcome.value
        /\ outcome.value.output_tokens = call.remote.returns.usage.outputTokens
        /\ "stop_reason" \in DOMAIN outcome.value
        /\ outcome.value.stop_reason = call.remote.returns.stopReason

ErrorPrefixes ==
    {"Bedrock API error: ", "Error summarizing PDF document: ",
     "Error with custom PDF prompt: ", "Error analyzing sentiment: ",
     "Error extracting topics: ", "Error answering question: "}

C11_MalformedResponseFails ==
    (/\ OrchestratorCalled
     /\ ~Raises(call.remote)
     /\ (~HasText(call.remote.returns) \/ "usage" \notin DOMAIN call.remote.returns)) =>
        outcome.kind = "raise"

\* the range the app's slider offers for num_topics
min_value == 3
max_value == 10
TopicsRange == min_value..max_value

\* C12: extract_key_topics either raises without sending anything when
\* num_topics is outside 3..10, or sends a prompt that asks for a number
\* inside 3..10.  The number is interpolated as given, so this fails.
C12_NumTopicsInRange ==
    (call.op = "extract_key_topics") =>
        \/ outcome.kind = "raise" /\ sent = << >>
        \/ /\ Len(sent) = 1
           /\ TextPart(sent[1]).text \in {TopicsPrompt(n) : n \in TopicsRange}

KnownStyles == {"concise", "detailed", "bullet-points", "executive"}

SummarizeCalled == call.op = "summarize_pdf_document"

\* C13: the prompt of a summarize request is non-empty, is the prompt of the
\* requested style when that is one of the four known styles, the four being
\* pairwise distinct, and is the concise prompt for any other style; the
\* call fails only when the remote client raised or answered without a text
\* block or a usage block.
C13_StylePrompts ==
    SummarizeCalled =>
        /\ Len(sent) = 1
        /\ TextPart(sent[1]).text # << >>
        /\ TextPart(sent[1]).text # None
        /\ call.summary_style \in KnownStyles =>
               TextPart(sent[1]).text = style_prompts[call.summary_style]
        /\ \A a, b \in KnownStyles : a # b => style_prompts[a] # style_prompts[b]
        /\ call.summary_style \notin KnownStyles =>
               TextPart(sent[1]).text = style_prompts["concise"]
        /\ outcome.kind = "raise" =>
               \/ Raises(call.remote)
               \/ ~HasText(call.remote.returns)
               \/ "usage" \notin DOMAIN call.remote.returns
               \/ "stopReason" \notin DOMAIN call.remote.returns

\* a summary was returned for a style that is not one of the four
C13_Witness ==
    /\ SummarizeCalled
    /\ call.summary_style = "poetic"
    /\ outcome.kind = "return"
    /\ TextPart(sent[1]).text = style_prompts["concise"]

-----------------------------------------------------------------------------
(* Claims about text documents, under SpecText *)

TextResultField(op) ==
    CASE op = "summarize_document_with_text" -> "summary"
      [] op = "analyze_document_sentiment" -> "analysis"
      [] op = "extract_key_topics" -> "topics"
      [] op = "answer_questions_about_document" -> "answer"

TextDocumentCalled == call.op # "none" /\ ~HasSeek(pdf_file)

\* C14: called with a plain text string as the document, and the remote
\* client answering, summarize_document_with_text, analyze_document_sentiment,
\* extract_key_topics and answer_questions_about_document return their result
\* and do not raise.  The library has no summarize_document_with_text and the
\* others call seek on the string, so this fails.
C14_TextDocumentAccepted ==
    TextDocumentCalled =>
        /\ outcome.kind = "return"
        /\ TextResultField(call.op) \in DOMAIN outcome.value

-----------------------------------------------------------------------------
(* Claims about the app, under SpecApp *)

AskedQuestion == call.op = "ask_question"

\* C15: the request of a Q&A call issued by the app carries the model id
\* selected in the sidebar.  The app passes model_id in the position of
\* chat_history, so the request carries the library's default model and
\* this fails for the two other models.
C15_SelectedModelSent ==
    AskedQuestion =>
        /\ Len(sent) = 1
        /\ sent[1].modelId = selected_model

\* C16: chat_history starts empty; a Q&A call that returns appends exactly
\* the pair of its question and its answer at the end; a Q&A call that
\* raises leaves it unchanged; Clear History empties it; no other event
\* changes it.  So it is always the list of the pairs of the successful Q&A
\* calls since the last clear, in arrival order.
C16_HistoryTracksAnswers ==
    /\ session_chat_history = << >>
    /\ [][/\ (call'.op = "ask_question" /\ outcome'.kind = "return") =>
               session_chat_history' =
                   Append(session_chat_history,
                          [question |-> call'.question, answer |-> outcome'.value.answer])
          /\ (call'.op = "ask_question" /\ outcome'.kind = "raise") =>
               session_chat_history' = session_chat_history
          /\ (call'.op = "clear_history") => session_chat_history' = << >>
          /\ (call'.op \notin {"ask_question", "clear_history"}) =>
               session_chat_history' = session_chat_history]_vars

\* a second, different question has just been answered and its pair is last
C16_Witness ==
    /\ AskedQuestion
    /\ outcome.kind = "return"
    /\ Len(session_chat_history) = 2
    /\ session_chat_history[1].question # session_chat_history[2].question
    /\ session_chat_history[2] =
           [question |-> call.question, answer |-> outcome.value.answer]

-----------------------------------------------------------------------------
(* Claims about concurrent calls, under SpecConc *)

\* the document bytes of the request a finished call has sent
Payload(t) == DocumentPart(threads[t].requests[1]).document.source.bytes

Suffixes(bytes) == {SubSeq(bytes, k, Len(bytes)) : k \in 1..(Len(bytes) + 1)}

\* C17: seek-then-read is not atomic.  Every call sends the bytes from some
\* read position to the end of the document, and when the calls on a file
\* object are serialized every call sends the whole document; with two
\* concurrent calls the interleaving seek, seek, read, read makes one call
\* send fewer bytes, none at all (the witness).
C17_SerializedCallsSendWholeDocument ==
    \A t \in DOMAIN threads :
        /\ threads[t].pc = "read" => threads[t].pdf_bytes \in Suffixes(Document)
        /\ threads[t].pc = "done" =>
              /\ Len(threads[t].requests) = 1
              /\ Payload(t) \in Suffixes(Document)
              /\ serialized => Payload(t) = Document

\* two unserialized calls have finished: one sent the whole document, the
\* other fewer bytes
C17_Witness ==
    /\ ~serialized
    /\ \A t \in Threads : threads[t].pc = "done"
    /\ \E t \in Threads : Payload(t) = Document
    /\ \E t \in Threads : Len(Payload(t)) < Len(Document)

====
